---- MODULE Spec2Model ----
(***************************************************************************)
(* Secure credential vault (src-tauri/src/secure_storage.rs) and the OAuth *)
(* token ledger built on it (src-tauri/src/spotify.rs, youtube.rs).        *)
(*                                                                         *)
(* The platform keyring is a map from entry names to text values.  Text,   *)
(* bytes, base64, JSON and AES-256-GCM are modelled symbolically: a text   *)
(* is the base64 encoding of some bytes, an EncryptedData JSON object, or  *)
(* raw text that is neither; a ciphertext opens only under the key and the *)
(* nonce that sealed it and only if no byte of it was changed.             *)
(***************************************************************************)
EXTENDS Integers, Sequences, FiniteSets, TLC

VARIABLES keyring, keygen, now, build, service, last, expect, tampered,
          retry, reply, tasks

vars == <<keyring, keygen, now, build, service, last, expect, tampered,
          retry, reply, tasks>>

----------------------------------------------------------------------------
(* Names of keyring entries *)

ENCRYPTION_KEY_NAME == "milk-encryption-key"

Services == {"spotify", "youtube"}

TOKEN_KEY(s) == IF s = "spotify" THEN "spotify_access_token" ELSE "youtube_access_token"

REFRESH_TOKEN_KEY(s) == IF s = "spotify" THEN "spotify_refresh_token" ELSE "youtube_refresh_token"

TOKEN_EXPIRY_KEY(s) == IF s = "spotify" THEN "spotify_token_expiry" ELSE "youtube_token_expiry"

LedgerNames(s) == {TOKEN_KEY(s), REFRESH_TOKEN_KEY(s), TOKEN_EXPIRY_KEY(s)}

API_KEY_KEY == "youtube_api_key"

\* the names the public store/retrieve/delete commands are called with
UserNames == {ENCRYPTION_KEY_NAME, "test_credential"}

Names == UserNames \cup LedgerNames("spotify") \cup LedgerNames("youtube") \cup {API_KEY_KEY}

----------------------------------------------------------------------------
(* Bounds of the model *)

\* number of master keys OsRng may be asked for in one behaviour
MaxKeys == 2

\* number of distinct 12-byte nonces OsRng may return
NumNonces == 1

\* the platform may start failing after 0..MaxFault successful keyring calls
MaxFault == 2

\* external modifications of keyring entries in one behaviour
MaxTamper == 1

----------------------------------------------------------------------------
(* Texts and bytes *)

NoEntry == [t |-> "NoEntry"]

Ambiguous == [t |-> "Ambiguous"]

\* text that is neither valid base64 nor a JSON object
Raw == [t |-> "raw"]

KEY_LEN == 32

NONCE_LEN == 12

TAG_LEN == 16

KeyBytes(k) == [b |-> "rand", id |-> k, len |-> KEY_LEN]

NonceBytes(n) == [b |-> "rand", id |-> n, len |-> NONCE_LEN]

\* random bytes of another length
JunkBytes(l) == [b |-> "rand", id |-> 0, len |-> l]

\* general_purpose::STANDARD.encode
B64Encode(bytes) == [t |-> "b64", bytes |-> bytes]

\* general_purpose::STANDARD.decode: fails on text that is not base64
B64Decode(text) ==
    IF text.t = "b64" THEN [ok |-> TRUE, bytes |-> text.bytes]
    ELSE [ok |-> FALSE, bytes |-> JunkBytes(0)]

\* serde_json::to_string(&EncryptedData {nonce, ciphertext})
JsonEncode(nonceText, cipherText) ==
    [t |-> "json", nonce |-> nonceText, ciphertext |-> cipherText]

\* serde_json::from_str::<EncryptedData>: fails on text that is not such an object
JsonDecode(text) ==
    IF text.t = "json" THEN [ok |-> TRUE, nonce |-> text.nonce, ciphertext |-> text.ciphertext]
    ELSE [ok |-> FALSE, nonce |-> Raw, ciphertext |-> Raw]

\* Aes256Gcm::encrypt: ciphertext with its authentication tag
Seal(key, nonce, pt) ==
    [b |-> "aead", key |-> key, nonce |-> nonce, pt |-> pt, flipped |-> FALSE,
     len |-> Len(pt) + TAG_LEN]

\* Aes256Gcm::decrypt: the tag verifies only for the sealing key and nonce and
\* an unmodified ciphertext
Open(key, nonce, ct) ==
    IF ct.b = "aead" /\ ct.key = key /\ ct.nonce = nonce /\ ~ct.flipped
    THEN [ok |-> TRUE, pt |-> ct.pt]
    ELSE [ok |-> FALSE, pt |-> <<>>]

----------------------------------------------------------------------------
(* Results *)

None == [some |-> FALSE, v |-> <<>>]

Some(v) == [some |-> TRUE, v |-> v]

Ok(c, v) == [kind |-> "Ok", val |-> v, err |-> "none", c |-> c]

Err(c, e) == [kind |-> "Err", val |-> None, err |-> e, c |-> c]

Panic(c, e) == [kind |-> "Panic", val |-> None, err |-> e, c |-> c]

----------------------------------------------------------------------------
(* The platform keyring (keyring::Entry), as the vault's code observes it.  *)
(* c.budget is the number of keyring calls the platform still answers; at 0 *)
(* every call fails with a platform error.  NoFault never runs out.         *)

NoFault == 99

\* the platform answers one call
Spend(c) == [c EXCEPT !.budget = IF c.budget >= NoFault THEN c.budget ELSE c.budget - 1]

\* the platform refuses a call
Refuse(c) == Err([c EXCEPT !.faulted = TRUE], "PlatformFailure")

get_password(c, name) ==
    IF c.budget = 0 THEN Refuse(c)
    ELSE IF c.kr[name] = NoEntry THEN Err(Spend(c), "NoEntry")
    ELSE IF c.kr[name] = Ambiguous THEN Err(Spend(c), "Ambiguous")
    ELSE Ok(Spend(c), c.kr[name])

set_password(c, name, text) ==
    IF c.budget = 0 THEN Refuse(c)
    ELSE IF c.kr[name] = Ambiguous THEN Err(Spend(c), "Ambiguous")
    ELSE Ok([Spend(c) EXCEPT !.kr[name] = text], None)

delete_credential(c, name) ==
    IF c.budget = 0 THEN Refuse(c)
    ELSE IF c.kr[name] = NoEntry THEN Err(Spend(c), "NoEntry")
    ELSE IF c.kr[name] = Ambiguous THEN Err(Spend(c), "Ambiguous")
    ELSE Ok([Spend(c) EXCEPT !.kr[name] = NoEntry], None)

----------------------------------------------------------------------------
(* PlatformSecureStorage.  A function's statements are the local operators  *)
(* of its definition, last statement first; each takes the results of the   *)
(* statements before it as parameters, so that a result is computed once.   *)

\* "Invalid key, regenerate" and "Generate new key": OsRng fills 32 fresh bytes
generate_key(c) ==
    LET stored(key, w) == IF w.kind = "Ok" THEN Ok(w.c, key) ELSE Err(w.c, "KeyringError")
    IN  stored(KeyBytes(c.keygen + 1),
               set_password([c EXCEPT !.keygen = c.keygen + 1], ENCRYPTION_KEY_NAME,
                            B64Encode(KeyBytes(c.keygen + 1))))

get_or_create_encryption_key(c) ==
    LET decoded(g, d) ==
            IF d.ok /\ d.bytes.len = KEY_LEN THEN Ok(g.c, d.bytes) ELSE generate_key(g.c)
        got(g) ==
            IF g.kind = "Ok" THEN decoded(g, B64Decode(g.val))
            ELSE IF g.err \in {"NoEntry", "Ambiguous"} THEN generate_key(g.c)
            ELSE Err(g.c, "KeyringError")
    IN  got(get_password(c, ENCRYPTION_KEY_NAME))

encrypt(c, plaintext, n) ==
    LET sealed(k) ==
            IF k.kind # "Ok" THEN k
            ELSE Ok([k.c EXCEPT !.sealed = TRUE], JsonEncode(B64Encode(NonceBytes(n)),
                                    B64Encode(Seal(k.val, NonceBytes(n), plaintext))))
    IN  sealed(get_or_create_encryption_key(c))

\* decrypt without the authentication tag: the bytes are deciphered whatever
\* was done to them
decrypt_unauthenticated(c, encrypted) ==
    LET decoded(k, nb, cb) ==
            IF ~nb.ok \/ ~cb.ok THEN Err(k.c, "Base64Error")
            ELSE IF nb.bytes.len # NONCE_LEN THEN Panic(k.c, "Nonce::from_slice")
            ELSE IF cb.bytes.b = "aead" THEN Ok(k.c, cb.bytes.pt)
            ELSE Err(k.c, "DecryptionError")
        parsed(k, j) ==
            IF ~j.ok THEN Err(k.c, "DecryptionError")
            ELSE decoded(k, B64Decode(j.nonce), B64Decode(j.ciphertext))
        keyed(k) == IF k.kind # "Ok" THEN k ELSE parsed(k, JsonDecode(encrypted))
    IN  keyed(get_or_create_encryption_key(c))

decrypt(c, encrypted) ==
    LET opened(k, p) == IF p.ok THEN Ok(k.c, p.pt) ELSE Err(k.c, "DecryptionError")
        decoded(k, nb, cb) ==
            IF ~nb.ok \/ ~cb.ok THEN Err(k.c, "Base64Error")
            ELSE IF nb.bytes.len # NONCE_LEN THEN Panic(k.c, "Nonce::from_slice")
            ELSE opened(k, Open(k.val, nb.bytes, cb.bytes))
        parsed(k, j) ==
            IF ~j.ok THEN Err(k.c, "DecryptionError")
            ELSE decoded(k, B64Decode(j.nonce), B64Decode(j.ciphertext))
        keyed(k) == IF k.kind # "Ok" THEN k ELSE parsed(k, JsonDecode(encrypted))
    IN  keyed(get_or_create_encryption_key(c))

store(c, key, value, n) ==
    LET written(w) == IF w.kind = "Ok" THEN Ok(w.c, None) ELSE Err(w.c, "KeyringError")
        encrypted(e) == IF e.kind # "Ok" THEN e ELSE written(set_password(e.c, key, e.val))
    IN  encrypted(encrypt(c, value, n))

\* retrieve with only NoEntry read as absence
retrieve_strict(c, key) ==
    LET decrypted(d) == IF d.kind = "Ok" THEN Ok(d.c, Some(d.val)) ELSE d
        got(g) ==
            IF g.kind = "Ok" THEN decrypted(decrypt(g.c, g.val))
            ELSE IF g.err = "NoEntry" THEN Ok(g.c, None)
            ELSE Err(g.c, "KeyringError")
    IN  got(get_password(c, key))

retrieve(c, key) ==
    LET decrypted(d) == IF d.kind = "Ok" THEN Ok(d.c, Some(d.val)) ELSE d
        got(g) ==
            IF g.kind = "Ok" THEN decrypted(decrypt(g.c, g.val))
            ELSE IF g.err \in {"NoEntry", "Ambiguous"} THEN Ok(g.c, None)
            ELSE Err(g.c, "KeyringError")
    IN  got(get_password(c, key))

delete(c, key) ==
    LET deleted(d) == IF d.kind = "Ok" THEN Ok(d.c, None) ELSE Err(d.c, "KeyringError")
    IN  deleted(delete_credential(c, key))

----------------------------------------------------------------------------
(* State *)

\* plaintexts handed to the public store command (the empty string included)
Secrets == {<<>>, <<"a">>}

Nonces == 1..NumNonces

\* how many keyring calls the platform answers during one handler
Budgets == (0..MaxFault) \cup {NoFault}

\* wall clock (epoch seconds, scaled) at start-up
StartTime == 100

\* struct Token, as far as the ledger reads it
Token(access, expires, refresh) ==
    [access_token |-> access, expires_in |-> expires, refresh_token |-> refresh]

NoToken == Token(<<>>, 0, None)

\* no token was handed to store_token
Unsaved == [some |-> FALSE, v |-> NoToken]

Ctx(b) ==
    [kr |-> keyring, budget |-> b, keygen |-> keygen, faulted |-> FALSE, sealed |-> FALSE,
     requests |-> 0, answer |-> Unsaved, saved |-> Unsaved]

\* the record of the handler that ran last: the entry name it was called with
\* and what it returned.  val is the text returned (by retrieve, by
\* get_valid_token), flag the answer of is_token_expired, answer the token the
\* vendor's response carried, saved the token handed to store_token (the token
\* authenticate and refresh_token return), sealed whether encrypt returned a
\* ciphertext
Done(op, name, r) ==
    [op |-> op, name |-> name,
     kind |-> r.kind, err |-> r.err, faulted |-> r.c.faulted, sealed |-> r.c.sealed,
     val |-> IF r.kind = "Ok" /\ op = "retrieve" THEN r.val
             ELSE IF r.kind = "Ok" /\ op = "get_valid_token" THEN Some(r.val)
             ELSE None,
     flag |-> r.kind = "Ok" /\ op = "is_token_expired" /\ r.val,
     creds |-> FALSE, requests |-> r.c.requests, answer |-> r.c.answer,
     saved |-> r.c.saved]

Idle ==
    [op |-> "none", name |-> "none",
     kind |-> "none", err |-> "none", faulted |-> FALSE, sealed |-> FALSE,
     val |-> None, flag |-> FALSE,
     creds |-> FALSE, requests |-> 0, answer |-> Unsaved, saved |-> Unsaved]

\* a MilkError that is none of the enum's variants: no error
NoError == [kind |-> "none", text |-> <<>>]

\* no retry_with_backoff is running
RetryIdle ==
    [pc |-> "idle", op |-> "none", attempts |-> 0, last_error |-> None,
     is_recoverable |-> FALSE, trace |-> <<>>,
     kind |-> "none", val |-> <<>>, err |-> NoError]

\* no query was answered yet.  A reply is what a command hands to the front
\* end: Ok with a body or Err; status is the vendor's answer to the request
\* the command sent and answer the body that came with it, input and ms the
\* duration text parsed and its value, hms the hours, minutes and seconds the
\* text was written from
NoReply ==
    [op |-> "none", status |-> "unsent", answer |-> "none", input |-> <<>>,
     hms |-> <<0, 0, 0>>, kind |-> "none", err |-> "none", body |-> "none", ms |-> 0]

\* concurrent callers of the vault
NumTasks == 2

Tasks == 1..NumTasks

\* a task that has not called the vault; token and stage are the token a
\* store_token of the task saves and the store it has reached (1 the access
\* token, 2 the refresh token, 3 the expiry)
TaskIdle ==
    [pc |-> "idle", name |-> "none", value |-> <<>>, key |-> JunkBytes(0), kind |-> "none",
     token |-> NoToken, stage |-> 0]

NoTasks == [t \in Tasks |-> TaskIdle]

\* a fresh installation; the platform may hold ambiguous (duplicated) entries
InitVault ==
    /\ keyring \in [Names -> {NoEntry, Ambiguous}]
    /\ \A n \in Names \ UserNames : keyring[n] = NoEntry
    /\ keygen = 0
    /\ now = StartTime
    /\ build = "release"
    /\ service = "none"
    /\ last = Idle
    /\ expect = [n \in UserNames |-> None]
    /\ tampered = 0
    /\ retry = RetryIdle
    /\ reply = NoReply
    /\ tasks = NoTasks

\* the effects of a handler that ran in context c and returned r
Commit(r) ==
    /\ r.c.keygen <= MaxKeys
    /\ keyring' = r.c.kr
    /\ keygen' = r.c.keygen

\* #[tauri::command] store_credential
StoreCredential(n, v, nonce, b) ==
    \E r \in {store(Ctx(b), n, v, nonce)} :
        /\ Commit(r)
        /\ last' = Done("store", n, r)
        /\ expect' = IF r.kind = "Ok" THEN [expect EXCEPT ![n] = Some(v)] ELSE expect
        /\ UNCHANGED <<now, build, service, tampered, retry, reply, tasks>>

\* #[tauri::command] retrieve_credential
RetrieveCredential(n, b) ==
    \E r \in {retrieve(Ctx(b), n)} :
        /\ Commit(r)
        /\ last' = Done("retrieve", n, r)
        /\ UNCHANGED <<now, build, service, tampered, expect, retry, reply, tasks>>

\* #[tauri::command] delete_credential
DeleteCredential(n, b) ==
    \E r \in {delete(Ctx(b), n)} :
        /\ Commit(r)
        /\ last' = Done("delete", n, r)
        /\ expect' = [expect EXCEPT ![n] = None]
        /\ UNCHANGED <<now, build, service, tampered, retry, reply, tasks>>

\* a single byte of the stored nonce replaced: another 12-byte nonce
FlipNonce(text) ==
    [text EXCEPT !.nonce = B64Encode([B64Decode(text.nonce).bytes EXCEPT !.id = @ + NumNonces])]

\* a single byte of the stored ciphertext replaced
FlipCiphertext(text) ==
    [text EXCEPT !.ciphertext = B64Encode([B64Decode(text.ciphertext).bytes EXCEPT !.flipped = TRUE])]

TamperKinds ==
    {"flip_nonce", "flip_ciphertext", "nonce_not_base64", "ciphertext_not_base64",
     "short_nonce", "not_json", "short_key"}

Tampering(text, how) ==
    CASE how = "flip_nonce" -> FlipNonce(text)
      [] how = "flip_ciphertext" -> FlipCiphertext(text)
      [] how = "nonce_not_base64" -> [text EXCEPT !.nonce = Raw]
      [] how = "ciphertext_not_base64" -> [text EXCEPT !.ciphertext = Raw]
      [] how = "short_nonce" -> [text EXCEPT !.nonce = B64Encode(JunkBytes(NONCE_LEN - 1))]
      [] how = "not_json" -> Raw
      [] how = "short_key" -> B64Encode(JunkBytes(KEY_LEN - 1))

\* the envelopes this program wrote: both fields still base64
IsEnvelope(text) ==
    /\ text.t = "json"
    /\ B64Decode(text.nonce).ok
    /\ B64Decode(text.ciphertext).ok
    /\ B64Decode(text.ciphertext).bytes.b = "aead"

\* another program (or the user, through the platform's credential manager)
\* modifies a stored entry
Tamper(n, how) ==
    /\ tampered < MaxTamper
    /\ keyring[n] \notin {NoEntry, Ambiguous}
    /\ how \in {"not_json", "short_key"} \/ IsEnvelope(keyring[n])
    /\ how = "short_key" => keyring[n].t = "b64"
    /\ how = "not_json" => keyring[n].t = "json"
    /\ keyring' = [keyring EXCEPT ![n] = Tampering(keyring[n], how)]
    /\ tampered' = tampered + 1
    /\ last' = [Idle EXCEPT !.op = "tamper", !.name = n]
    /\ expect' = IF n = ENCRYPTION_KEY_NAME THEN [m \in UserNames |-> None]
                 ELSE [expect EXCEPT ![n] = None]
    /\ UNCHANGED <<keygen, now, build, service, retry, reply, tasks>>

NextVault ==
    \/ \E n \in UserNames, v \in Secrets, nonce \in Nonces, b \in Budgets :
           StoreCredential(n, v, nonce, b)
    \/ \E n \in UserNames, b \in Budgets : RetrieveCredential(n, b)
    \/ \E n \in UserNames, b \in Budgets : DeleteCredential(n, b)
    \/ \E n \in UserNames, how \in TamperKinds : Tamper(n, how)

Spec == InitVault /\ [][NextVault]_vars

----------------------------------------------------------------------------
(* u64 arithmetic and decimal text.  The word is scaled down from 64 bits; *)
(* every clock value stays far below U64_MAX - SKEW, as it does in the     *)
(* program.                                                                *)

U64_MAX == 1023

SKEW == 60

Digits == <<"0", "1", "2", "3", "4", "5", "6", "7", "8", "9">>

IsDigit(ch) == \E d \in 1..10 : Digits[d] = ch

DigitVal(ch) == (CHOOSE d \in 1..10 : Digits[d] = ch) - 1

\* u64::to_string
RECURSIVE to_string(_)
to_string(n) ==
    IF n < 10 THEN <<Digits[n + 1]>>
    ELSE Append(to_string(n \div 10), Digits[(n % 10) + 1])

RECURSIVE ParseDigits(_, _)
ParseDigits(text, acc) ==
    IF text = <<>> THEN [ok |-> TRUE, n |-> acc]
    ELSE IF ~IsDigit(Head(text)) THEN [ok |-> FALSE, n |-> 0]
    ELSE IF acc * 10 + DigitVal(Head(text)) > U64_MAX THEN [ok |-> FALSE, n |-> 0]
    ELSE ParseDigits(Tail(text), acc * 10 + DigitVal(Head(text)))

\* str::parse::<u64>: an optional '+', then one or more digits, no overflow
parse_u64(text) ==
    LET digits == IF text # <<>> /\ Head(text) = "+" THEN Tail(text) ELSE text
    IN  IF digits = <<>> THEN [ok |-> FALSE, n |-> 0] ELSE ParseDigits(digits, 0)

\* a + b in u64: a debug build aborts on overflow, a release build wraps
AddU64(c, a, b) ==
    IF a + b <= U64_MAX THEN Ok(c, a + b)
    ELSE IF build = "debug" THEN Panic(c, "attempt to add with overflow")
    ELSE Ok(c, (a + b) % (U64_MAX + 1))

\* a - b in u64: a debug build aborts on overflow, a release build wraps
SubU64(c, a, b) ==
    IF a >= b THEN Ok(c, a - b)
    ELSE IF build = "debug" THEN Panic(c, "attempt to subtract with overflow")
    ELSE Ok(c, a - b + U64_MAX + 1)

----------------------------------------------------------------------------
(* SpotifyBridge / YouTubeBridge: the token ledger of service s *)

\* the nonce OsRng returns for the i-th encryption of a ledger handler; the
\* ledger never looks at a nonce, so its handlers are run with one draw each
NonceAt(i) == (i % NumNonces) + 1

\* ? on a storage result: the error becomes ApiError::StorageError
StorageErr(r) == IF r.kind = "Err" THEN Err(r.c, "StorageError") ELSE r

store_token(c, s, token) ==
    LET summed(f, expiry) ==
            IF expiry.kind # "Ok" THEN expiry
            ELSE StorageErr(store(f.c, TOKEN_EXPIRY_KEY(s), to_string(expiry.val), NonceAt(2)))
        refreshed(f) ==
            IF f.kind # "Ok" THEN f ELSE summed(f, AddU64(f.c, now, token.expires_in))
        accessed(a) ==
            IF a.kind # "Ok" THEN a
            ELSE refreshed(IF token.refresh_token.some
                           THEN StorageErr(store(a.c, REFRESH_TOKEN_KEY(s),
                                                 token.refresh_token.v, NonceAt(1)))
                           ELSE a)
    IN  accessed(StorageErr(store([c EXCEPT !.saved = Some(token)], TOKEN_KEY(s),
                                  token.access_token, NonceAt(0))))

get_access_token(c, s) == StorageErr(retrieve(c, TOKEN_KEY(s)))

get_refresh_token(c, s) == StorageErr(retrieve(c, REFRESH_TOKEN_KEY(s)))

is_token_expired(c, s) ==
    LET limited(limit) == IF limit.kind # "Ok" THEN limit ELSE Ok(limit.c, now >= limit.val)
        parsed(expiry_str, expiry) ==
            IF ~expiry.ok THEN Err(expiry_str.c, "ParseError")
            ELSE limited(SubU64(expiry_str.c, expiry.n, SKEW))
        fetched(expiry_str) ==
            IF expiry_str.kind # "Ok" THEN expiry_str
            ELSE IF expiry_str.val.some THEN parsed(expiry_str, parse_u64(expiry_str.val.v))
            ELSE Ok(expiry_str.c, TRUE)
    IN  fetched(StorageErr(retrieve(c, TOKEN_EXPIRY_KEY(s))))

\* the vendor's answers to a token request
HttpFailures == {"NetworkError", "AuthenticationError", "ParseError"}

\* the token request: client.post(..).send(), status check, response.json()
token_request(c, response) ==
    IF response.status \in HttpFailures
    THEN Err([c EXCEPT !.requests = c.requests + 1], response.status)
    ELSE Ok([c EXCEPT !.requests = c.requests + 1, !.answer = Some(response.token)],
            response.token)

\* refresh_token that hands the vendor's token on as it came
refresh_token_forgetful(c, s, response) ==
    LET stored(token, r) == IF r.kind # "Ok" THEN r ELSE Ok(r.c, token)
        merged(got, token) == stored(token, store_token(got.c, s, token))
        answered(old, got) ==
            IF got.kind # "Ok" THEN got
            ELSE merged(got, got.val)
        fetched(old) ==
            IF old.kind # "Ok" THEN old
            ELSE IF ~old.val.some THEN Err(old.c, "AuthenticationError")
            ELSE answered(old, token_request(old.c, response))
    IN  fetched(get_refresh_token(c, s))

refresh_token(c, s, response) ==
    LET stored(token, r) == IF r.kind # "Ok" THEN r ELSE Ok(r.c, token)
        merged(got, token) == stored(token, store_token(got.c, s, token))
        answered(old, got) ==
            IF got.kind # "Ok" THEN got
            ELSE merged(got, IF got.val.refresh_token.some THEN got.val
                             ELSE [got.val EXCEPT !.refresh_token = Some(old.val.v)])
        fetched(old) ==
            IF old.kind # "Ok" THEN old
            ELSE IF ~old.val.some THEN Err(old.c, "AuthenticationError")
            ELSE answered(old, token_request(old.c, response))
    IN  fetched(get_refresh_token(c, s))

authenticate(c, s, response) ==
    LET stored(token, r) == IF r.kind # "Ok" THEN r ELSE Ok(r.c, token)
        answered(got) ==
            IF got.kind # "Ok" THEN got
            ELSE stored(got.val, store_token(got.c, s, got.val))
    IN  answered(token_request(c, response))

\* get_valid_token that never looks at the stored access token
get_valid_token_refreshing(c, s, credentials, response) ==
    LET refreshed(new_token) ==
            IF new_token.kind # "Ok" THEN new_token
            ELSE Ok(new_token.c, new_token.val.access_token)
        checked(expired) ==
            IF expired.kind # "Ok" THEN expired
            ELSE IF credentials THEN refreshed(refresh_token(expired.c, s, response))
            ELSE Err(expired.c, "TokenExpired")
    IN  checked(is_token_expired(c, s))

get_valid_token(c, s, credentials, response) ==
    LET refreshed(new_token) ==
            IF new_token.kind # "Ok" THEN new_token
            ELSE Ok(new_token.c, new_token.val.access_token)
        found(token) ==
            IF token.kind # "Ok" THEN token
            ELSE IF token.val.some THEN Ok(token.c, token.val.v)
            ELSE IF credentials THEN refreshed(refresh_token(token.c, s, response))
            ELSE Err(token.c, "TokenExpired")
        checked(expired) ==
            IF expired.kind # "Ok" THEN expired
            ELSE found(IF ~expired.val THEN get_access_token(expired.c, s)
                       ELSE Ok(expired.c, None))
    IN  checked(is_token_expired(c, s))

----------------------------------------------------------------------------
(* The ledger's handlers *)

\* the clock advances at most this far past StartTime
Horizon == 1

AccessTokens == {<<"A">>, <<"B">>}

RefreshTokens == {<<"R">>, <<"S">>}

\* the tokens the vendor answers with
VendorTokens ==
    {Token(<<"A">>, SKEW + 1, Some(<<"R">>)), Token(<<"B">>, SKEW + 1, Some(<<"S">>)),
     Token(<<"B">>, SKEW + 1, None), Token(<<"A">>, 0, None), Token(<<"B">>, U64_MAX, None)}

Responses ==
    {[status |-> f, token |-> NoToken] : f \in HttpFailures}
        \cup {[status |-> "Ok", token |-> t] : t \in VendorTokens}

\* the platform answers every call, or fails after MaxFault or 2 * MaxFault calls
LedgerBudgets == {MaxFault, 2 * MaxFault, NoFault}

\* values the public store command writes over the expiry entry
ExpiryTexts == {<<"3", "0">>, <<"A">>}

InitLedger ==
    /\ keyring = [n \in Names |-> NoEntry]
    /\ keygen = 0
    /\ now = StartTime
    /\ build \in {"debug", "release"}
    /\ service \in Services
    /\ last = Idle
    /\ expect = [n \in UserNames |-> None]
    /\ tampered = 0
    /\ retry = RetryIdle
    /\ reply = NoReply
    /\ tasks = NoTasks

\* #[tauri::command] spotify_authenticate / youtube_authenticate
Authenticate(response, b) ==
    \E r \in {authenticate(Ctx(b), service, response)} :
        /\ Commit(r)
        /\ last' = [Done("authenticate", "none", r) EXCEPT !.creds = TRUE]
        /\ UNCHANGED <<now, build, service, expect, tampered, retry, reply, tasks>>

\* #[tauri::command] spotify_refresh_token / youtube_refresh_token
RefreshToken(response, b) ==
    \E r \in {refresh_token(Ctx(b), service, response)} :
        /\ Commit(r)
        /\ last' = [Done("refresh_token", "none", r) EXCEPT !.creds = TRUE]
        /\ UNCHANGED <<now, build, service, expect, tampered, retry, reply, tasks>>

\* #[tauri::command] spotify_check_token_expired / youtube_check_token_expired
CheckTokenExpired(b) ==
    \E r \in {is_token_expired(Ctx(b), service)} :
        /\ Commit(r)
        /\ last' = Done("is_token_expired", "none", r)
        /\ UNCHANGED <<now, build, service, expect, tampered, retry, reply, tasks>>

\* #[tauri::command] spotify_ensure_valid_token / youtube_ensure_valid_token
EnsureValidToken(credentials, response, b) ==
    \E r \in {get_valid_token(Ctx(b), service, credentials, response)} :
        /\ Commit(r)
        /\ last' = [Done("get_valid_token", "none", r) EXCEPT !.creds = credentials]
        /\ UNCHANGED <<now, build, service, expect, tampered, retry, reply, tasks>>

\* #[tauri::command] store_credential, called with the name of the expiry entry
StoreExpiry(v) ==
    \E r \in {store(Ctx(NoFault), TOKEN_EXPIRY_KEY(service), v, NonceAt(0))} :
        /\ Commit(r)
        /\ last' = Done("store", TOKEN_EXPIRY_KEY(service), r)
        /\ UNCHANGED <<now, build, service, expect, tampered, retry, reply, tasks>>

\* #[tauri::command] delete_credential, called with the name of a ledger entry
DeleteEntry(n) ==
    \E r \in {delete(Ctx(NoFault), n)} :
        /\ Commit(r)
        /\ last' = Done("delete", n, r)
        /\ UNCHANGED <<now, build, service, expect, tampered, retry, reply, tasks>>

\* the wall clock advances
Tick ==
    /\ now < StartTime + Horizon
    /\ now' = now + 1
    /\ last' = [Idle EXCEPT !.op = "tick"]
    /\ UNCHANGED <<keyring, keygen, build, service, expect, tampered, retry, reply, tasks>>

NextLedger ==
    \/ \E response \in Responses, b \in LedgerBudgets : Authenticate(response, b)
    \/ \E response \in Responses, b \in LedgerBudgets : RefreshToken(response, b)
    \/ \E b \in LedgerBudgets : CheckTokenExpired(b)
    \/ \E response \in Responses, b \in LedgerBudgets : EnsureValidToken(TRUE, response, b)
    \/ \E b \in LedgerBudgets : EnsureValidToken(FALSE, CHOOSE r \in Responses : TRUE, b)
    \/ \E v \in ExpiryTexts : StoreExpiry(v)
    \/ \E n \in LedgerNames(service) : DeleteEntry(n)
    \/ Tick

SpecLedger == InitLedger /\ [][NextLedger]_vars

----------------------------------------------------------------------------
(* MilkError (error.rs) and ErrorRecovery::retry_with_backoff                *)
(* (error_recovery.rs).  A text is a sequence of pieces.                    *)

\* enum MilkError: the variants that carry no text
UnitErrors == {"RateLimitExceeded", "AudioDeviceUnavailable"}

\* enum MilkError
MilkErrorKinds ==
    {"FileSystem", "InvalidPath", "PermissionDenied", "DiskFull", "CorruptedFile",
     "AuthenticationFailed", "RateLimitExceeded", "NetworkTimeout", "InvalidResponse",
     "NetworkError", "UnsupportedFormat", "DecodeError", "AudioDeviceUnavailable",
     "InvalidConfig", "ConfigParseError", "MissingConfig", "SkinParseError",
     "InvalidSkinFormat", "MissingSkinAssets", "MetadataError", "PlaylistNotFound",
     "InvalidPlaylistOperation", "SecureStorageError", "Internal", "Other"}

MilkError(kind, text) == [kind |-> kind, text |-> IF kind \in UnitErrors THEN <<>> ELSE text]

\* the #[error("...")] attribute of each variant, up to its {0}
Prefix(kind) ==
    CASE kind = "FileSystem" -> <<"File system error: ">>
      [] kind = "InvalidPath" -> <<"Invalid path: ">>
      [] kind = "PermissionDenied" -> <<"Permission denied: ">>
      [] kind = "DiskFull" -> <<"Disk full: unable to save ">>
      [] kind = "CorruptedFile" -> <<"Corrupted file: ">>
      [] kind = "AuthenticationFailed" -> <<"Authentication failed: ">>
      [] kind = "RateLimitExceeded" -> <<"API rate limit exceeded">>
      [] kind = "NetworkTimeout" -> <<"Network timeout: ">>
      [] kind = "InvalidResponse" -> <<"Invalid API response: ">>
      [] kind = "NetworkError" -> <<"Network error: ">>
      [] kind = "UnsupportedFormat" -> <<"Unsupported audio format: ">>
      [] kind = "DecodeError" -> <<"Audio decode error: ">>
      [] kind = "AudioDeviceUnavailable" -> <<"Audio device unavailable">>
      [] kind = "InvalidConfig" -> <<"Invalid configuration value: ">>
      [] kind = "ConfigParseError" -> <<"Configuration parse error: ">>
      [] kind = "MissingConfig" -> <<"Missing required configuration: ">>
      [] kind = "SkinParseError" -> <<"Skin parse error: ">>
      [] kind = "InvalidSkinFormat" -> <<"Invalid skin format: ">>
      [] kind = "MissingSkinAssets" -> <<"Missing skin assets: ">>
      [] kind = "MetadataError" -> <<"Metadata extraction failed: ">>
      [] kind = "PlaylistNotFound" -> <<"Playlist not found: ">>
      [] kind = "InvalidPlaylistOperation" -> <<"Invalid playlist operation: ">>
      [] kind = "SecureStorageError" -> <<"Secure storage error: ">>
      [] kind = "Internal" -> <<"Internal error: ">>
      [] kind = "Other" -> <<>>

\* e.to_string()
Display(e) == Prefix(e.kind) \o e.text

\* is_recoverable that retries a failed authentication
is_recoverable_auth(e) ==
    e.kind \in {"NetworkTimeout", "AuthenticationFailed", "RateLimitExceeded",
                "CorruptedFile", "SkinParseError", "MetadataError"}

\* is_recoverable that retries every network failure
is_recoverable_network(e) ==
    e.kind \in {"NetworkTimeout", "NetworkError", "RateLimitExceeded", "CorruptedFile",
                "SkinParseError", "MetadataError"}

is_recoverable(e) ==
    e.kind \in {"NetworkTimeout", "RateLimitExceeded", "CorruptedFile", "SkinParseError",
                "MetadataError"}

\* the text an ApiError of the ledger carries
ApiText == <<"e">>

\* impl From<ApiError> for MilkError
from_api_error(err) ==
    CASE err = "NetworkError" -> MilkError("NetworkError", ApiText)
      [] err = "AuthenticationError" -> MilkError("AuthenticationFailed", <<"Spotify: ">> \o ApiText)
      [] err = "ParseError" -> MilkError("InvalidResponse", ApiText)
      [] err = "StorageError" -> MilkError("SecureStorageError", ApiText)
      [] err = "TokenExpired" -> MilkError("AuthenticationFailed", <<"Spotify token expired">>)
      [] err = "NoActivePlayback" -> MilkError("Other", <<"No active playback">>)

MAX_RETRIES == 3

BASE_DELAY_MS == 1000

\* what one invocation of the operation returned
Outcome(kind, val, err) == [kind |-> kind, val |-> val, err |-> err]

\* the steps of a run, in order: an invocation of the operation with what it
\* returned, or a sleep with its duration
Called(out) == [ev |-> "call", ms |-> 0, out |-> out]

Slept(ms) == [ev |-> "sleep", ms |-> ms, out |-> Outcome("none", <<>>, NoError)]

\* retry_with_backoff whose first wait is twice the base delay
backoff_delay_doubled(attempts) == BASE_DELAY_MS * 2 ^ attempts

\* let delay_ms = BASE_DELAY_MS * 2u64.pow(attempts - 1)
backoff_delay(attempts) == BASE_DELAY_MS * 2 ^ (attempts - 1)

\* retry_with_backoff that reports exhaustion without the last error
exhausted_unknown(st) ==
    [st EXCEPT !.pc = "done", !.kind = "Err",
               !.err = MilkError("Internal", <<"Unknown error">>)]

\* "All retries exhausted": the statements after the loop
exhausted(st) ==
    [st EXCEPT !.pc = "done", !.kind = "Err",
               !.err = MilkError("Internal", IF st.last_error.some THEN st.last_error.v
                                             ELSE <<"Unknown error">>)]

\* the Err arm that wraps a non-recoverable error like an exhausted one
failed_wrapping(st, e) ==
    LET counted(n) ==
            IF ~n.is_recoverable THEN exhausted(n)
            ELSE IF n.attempts < MAX_RETRIES
                 THEN [n EXCEPT !.pc = "sleep",
                                !.trace = Append(@, Slept(backoff_delay(n.attempts)))]
            ELSE exhausted(n)
    IN  counted([st EXCEPT !.attempts = @ + 1, !.last_error = Some(Display(e)),
                           !.is_recoverable = is_recoverable(e)])

\* the Err(e) arm of the loop body; when no attempt remains the loop ends
failed(st, e) ==
    LET counted(n) ==
            IF ~n.is_recoverable THEN [n EXCEPT !.pc = "done", !.kind = "Err", !.err = e]
            ELSE IF n.attempts < MAX_RETRIES
                 THEN [n EXCEPT !.pc = "sleep",
                                !.trace = Append(@, Slept(backoff_delay(n.attempts)))]
            ELSE exhausted(n)
    IN  counted([st EXCEPT !.attempts = @ + 1, !.last_error = Some(Display(e)),
                           !.is_recoverable = is_recoverable(e)])

\* match operation().await; a panic of the operation unwinds through the loop
attempted(st, out) ==
    LET called(n) ==
            IF out.kind = "Ok" THEN [n EXCEPT !.pc = "done", !.kind = "Ok", !.val = out.val]
            ELSE IF out.kind = "Panic" THEN [n EXCEPT !.pc = "done", !.kind = "Panic"]
            ELSE failed(n, out.err)
    IN  called([st EXCEPT !.trace = Append(@, Called(out))])

\* the closure of recover_token_error: refresh_token(..).map_err(MilkError::from),
\* then Ok(token.access_token)
TokenOutcome(r) ==
    IF r.kind = "Ok" THEN Outcome("Ok", r.val.access_token, NoError)
    ELSE IF r.kind = "Err" THEN Outcome("Err", <<>>, from_api_error(r.err))
    ELSE Outcome("Panic", <<>>, NoError)

\* the operations handed to retry_with_backoff: a closure whose results the
\* caller's environment decides, and the refresh of the service's token
RetryOps == {"scripted", "refresh_token"}

\* what a scripted operation returns
Outcomes ==
    {Outcome("Ok", v, NoError) : v \in {<<"success">>, <<"retried">>}}
        \cup {Outcome("Err", <<>>, MilkError(k, <<"test">>)) : k \in MilkErrorKinds}

\* retry_with_backoff(operation, name) is called: attempts = 0, last_error = None
RetryBegin(op) ==
    /\ retry.pc \in {"idle", "done"}
    /\ retry' = [RetryIdle EXCEPT !.pc = "call", !.op = op]
    /\ last' = [Idle EXCEPT !.op = "retry"]
    /\ UNCHANGED <<keyring, keygen, now, build, service, expect, tampered, reply, tasks>>

\* one pass of the loop body with a scripted operation
RetryScripted(out) ==
    /\ retry.pc = "call"
    /\ retry.op = "scripted"
    /\ retry' = attempted(retry, out)
    /\ last' = [Idle EXCEPT !.op = "retry"]
    /\ UNCHANGED <<keyring, keygen, now, build, service, expect, tampered, reply, tasks>>

\* one pass of the loop body with the token refresh as the operation
RetryRefresh(response, b) ==
    /\ retry.pc = "call"
    /\ retry.op = "refresh_token"
    /\ \E r \in {refresh_token(Ctx(b), service, response)} :
           /\ Commit(r)
           /\ last' = [Done("refresh_token", "none", r) EXCEPT !.creds = TRUE]
           /\ retry' = attempted(retry, TokenOutcome(r))
    /\ UNCHANGED <<now, build, service, expect, tampered, reply, tasks>>

\* sleep(Duration::from_millis(delay_ms)) returns; the loop condition is tested
RetryWake ==
    /\ retry.pc = "sleep"
    /\ retry' = IF retry.attempts < MAX_RETRIES THEN [retry EXCEPT !.pc = "call"]
                 ELSE exhausted(retry)
    /\ last' = [Idle EXCEPT !.op = "retry"]
    /\ UNCHANGED <<keyring, keygen, now, build, service, expect, tampered, reply, tasks>>

\* authenticate, while no retry_with_backoff runs
AuthenticateIdle(response) ==
    /\ retry.pc = "idle"
    /\ Authenticate(response, NoFault)

\* retry_with_backoff around an operation that does not touch the ledger
NextRetry ==
    \/ RetryBegin("scripted")
    \/ \E out \in Outcomes : RetryScripted(out)
    \/ RetryWake

SpecRetry == InitLedger /\ [][NextRetry]_vars

\* every invocation of the operation returns and every sleep ends
SpecRetryFair ==
    /\ SpecRetry
    /\ WF_vars(\E out \in Outcomes : RetryScripted(out))
    /\ WF_vars(RetryWake)

\* retry_with_backoff around either operation, on a ledger that was
\* authenticated any number of times
NextRecovery ==
    \/ \E op \in RetryOps : RetryBegin(op)
    \/ \E out \in Outcomes : RetryScripted(out)
    \/ \E response \in Responses, b \in LedgerBudgets : RetryRefresh(response, b)
    \/ RetryWake
    \/ \E response \in Responses : AuthenticateIdle(response)

SpecRecovery == InitLedger /\ [][NextRecovery]_vars

----------------------------------------------------------------------------
(* YouTubeBridge::parse_duration.  A duration text is a sequence of          *)
(* characters; its numbers stay far below u64::MAX.                          *)

PT == <<"P", "T">>

\* str::trim_start_matches("PT"): every leading repetition is removed
RECURSIVE trim_start_matches_PT(_)
trim_start_matches_PT(text) ==
    IF Len(text) >= 2 /\ SubSeq(text, 1, 2) = PT
    THEN trim_start_matches_PT(SubSeq(text, 3, Len(text)))
    ELSE text

\* the loop of a parse_duration that skips the letters it does not know
RECURSIVE scan_lenient(_, _, _, _, _)
scan_lenient(text, current_num, hours, minutes, seconds) ==
    LET flushed(ch, rest, num) ==
            IF ~num.ok THEN [ok |-> FALSE, ms |-> 0]
            ELSE IF ch = "H" THEN scan_lenient(rest, <<>>, num.n, minutes, seconds)
            ELSE IF ch = "M" THEN scan_lenient(rest, <<>>, hours, num.n, seconds)
            ELSE IF ch = "S" THEN scan_lenient(rest, <<>>, hours, minutes, num.n)
            ELSE scan_lenient(rest, <<>>, hours, minutes, seconds)
    IN  IF text = <<>> THEN [ok |-> TRUE, ms |-> (hours * 3600 + minutes * 60 + seconds) * 1000]
        ELSE IF IsDigit(Head(text))
             THEN scan_lenient(Tail(text), Append(current_num, Head(text)), hours, minutes, seconds)
        ELSE flushed(Head(text), Tail(text), parse_u64(current_num))

\* for ch in duration.chars() { .. }, then the sum in milliseconds
RECURSIVE scan(_, _, _, _, _)
scan(text, current_num, hours, minutes, seconds) ==
    LET flushed(ch, rest, num) ==
            IF ~num.ok THEN [ok |-> FALSE, ms |-> 0]
            ELSE IF ch = "H" THEN scan(rest, <<>>, num.n, minutes, seconds)
            ELSE IF ch = "M" THEN scan(rest, <<>>, hours, num.n, seconds)
            ELSE IF ch = "S" THEN scan(rest, <<>>, hours, minutes, num.n)
            ELSE [ok |-> FALSE, ms |-> 0]
    IN  IF text = <<>> THEN [ok |-> TRUE, ms |-> (hours * 3600 + minutes * 60 + seconds) * 1000]
        ELSE IF IsDigit(Head(text))
             THEN scan(Tail(text), Append(current_num, Head(text)), hours, minutes, seconds)
        ELSE flushed(Head(text), Tail(text), parse_u64(current_num))

\* Ok(ms), or Err(ApiError::ParseError)
parse_duration(duration) == scan(trim_start_matches_PT(duration), <<>>, 0, 0, 0)

\* the largest components of a duration text
MaxHours == 23

MaxMinutes == 59

MaxSeconds == 59

\* the text the property test builds: "PT", then each non-zero component with
\* its unit letter
DurationText(h, m, s) ==
    PT \o (IF h > 0 THEN Append(to_string(h), "H") ELSE <<>>)
       \o (IF m > 0 THEN Append(to_string(m), "M") ELSE <<>>)
       \o (IF s > 0 THEN Append(to_string(s), "S") ELSE <<>>)

\* a duration to parse: the text and the components it was written from
Case(text, h, m, s) == [input |-> text, hms |-> <<h, m, s>>]

WellFormed ==
    {Case(DurationText(h, m, s), h, m, s) :
        h \in 0..MaxHours, m \in 0..MaxMinutes, s \in 0..MaxSeconds} \ {Case(PT, 0, 0, 0)}

\* letters that are not units of parse_duration
BadUnits == {"D", "X", "h", "T"}

\* the text with its i-th character replaced
Replaced(text, i, ch) == [text EXCEPT ![i] = ch]

\* texts with a unit letter that is not H, M or S: one unit letter of a text
\* replaced, or such a letter appended, with a number and without
Malformed ==
    UNION {{Case(Replaced(DurationText(h, m, s), i, ch), h, m, s) :
                i \in {j \in 3..Len(DurationText(h, m, s)) :
                          ~IsDigit(DurationText(h, m, s)[j])}, ch \in BadUnits}
           \cup {Case(DurationText(h, m, s) \o <<"7", ch>>, h, m, s) : ch \in BadUnits}
           \cup {Case(Append(DurationText(h, m, s), ch), h, m, s) : ch \in BadUnits} :
               h \in {0, 1, MaxHours}, m \in {0, 2}, s \in {0, 3, MaxSeconds}}

\* a duration text arrives
InitDuration ==
    /\ keyring = [n \in Names |-> NoEntry]
    /\ keygen = 0
    /\ now = StartTime
    /\ build = "release"
    /\ service = "youtube"
    /\ last = Idle
    /\ expect = [n \in UserNames |-> None]
    /\ tampered = 0
    /\ retry = RetryIdle
    /\ reply \in {[NoReply EXCEPT !.input = c.input, !.hms = c.hms] : c \in WellFormed \cup Malformed}
    /\ tasks = NoTasks

\* self.parse_duration(duration_str)
ParseDuration ==
    /\ reply.op = "none"
    /\ \E r \in {parse_duration(reply.input)} :
           reply' = [reply EXCEPT !.op = "parse_duration",
                                  !.kind = IF r.ok THEN "Ok" ELSE "Err",
                                  !.err = IF r.ok THEN "none" ELSE "ParseError",
                                  !.ms = r.ms]
    /\ UNCHANGED <<keyring, keygen, now, build, service, last, expect, tampered, retry, tasks>>

NextDuration == ParseDuration

SpecDuration == InitDuration /\ [][NextDuration]_vars

----------------------------------------------------------------------------
(* The queries of the bridges: StreamingService::get_now_playing            *)
(* (spotify.rs, youtube.rs), YouTubeBridge::get_video_metadata and the      *)
(* commands that hand their results to the front end (lib.rs)               *)

\* what the vendor answers to a query: the request fails in send(), or a
\* status comes back; a 200 carries a body that is no JSON, a JSON without the
\* field the bridge reads, a JSON with an empty "items" array, or a track with
\* its duration text
Answer(status, body, duration) == [status |-> status, body |-> body, duration |-> duration]

Statuses == {"send_failed", "204", "401", "403", "500"}

Bodies == {"bad_json", "missing_field", "empty_items"}

\* duration texts of the tracks the vendor describes
TrackDurations == {DurationText(0, 4, 13), DurationText(1, 2, 3), <<"P", "T", "5", "X">>}

Answers ==
    {Answer(status, "none", <<>>) : status \in Statuses}
        \cup {Answer("200", body, <<>>) : body \in Bodies}
        \cup {Answer("200", "track", d) : d \in TrackDurations}

\* SpotifyBridge::get_now_playing; client.get(..).send() counts as a request
spotify_get_now_playing(c, answer) ==
    LET answered(q) ==
            IF answer.status = "send_failed" THEN Err(q, "NetworkError")
            ELSE IF answer.status = "204" THEN Ok(q, None)
            ELSE IF answer.status = "401" THEN Err(q, "TokenExpired")
            ELSE IF answer.status # "200" THEN Err(q, "NetworkError")
            ELSE IF answer.body # "track" THEN Err(q, "ParseError")
            ELSE Ok(q, Some(<<"track">>))
        fetched(access_token) ==
            IF access_token.kind # "Ok" THEN access_token
            ELSE IF ~access_token.val.some THEN Err(access_token.c, "AuthenticationError")
            ELSE answered([access_token.c EXCEPT !.requests = @ + 1])
    IN  fetched(get_access_token(c, "spotify"))

\* YouTubeBridge::get_now_playing: a placeholder
youtube_get_now_playing(c) == Ok(c, None)

get_now_playing(c, s, answer) ==
    IF s = "spotify" THEN spotify_get_now_playing(c, answer) ELSE youtube_get_now_playing(c)

\* YouTubeBridge::get_api_key
get_api_key(c) == StorageErr(retrieve(c, API_KEY_KEY))

\* YouTubeBridge::get_video_metadata; Ok carries the track's duration_ms
get_video_metadata(c, answer) ==
    LET measured(q, duration_ms) ==
            IF ~duration_ms.ok THEN Err(q, "ParseError") ELSE Ok(q, duration_ms.ms)
        answered(q) ==
            IF answer.status = "send_failed" THEN Err(q, "NetworkError")
            ELSE IF answer.status \in {"401", "403"} THEN Err(q, "AuthenticationError")
            ELSE IF answer.status \notin {"200", "204"} THEN Err(q, "NetworkError")
            ELSE IF answer.body \in {"none", "bad_json", "missing_field"}
                 THEN Err(q, "ParseError")
            ELSE IF answer.body = "empty_items" THEN Err(q, "NoActivePlayback")
            ELSE measured(q, parse_duration(answer.duration))
        fetched(api_key) ==
            IF api_key.kind # "Ok" THEN api_key
            ELSE IF ~api_key.val.some THEN Err(api_key.c, "AuthenticationError")
            ELSE answered([api_key.c EXCEPT !.requests = @ + 1])
    IN  fetched(get_api_key(c))

\* what a command hands to the front end for the result r of the bridge, when
\* the vendor's answer was answer: Ok with the body, or Err with a message
\* (err names the ApiError the message was written from)
Reply(op, r, answer) ==
    [NoReply EXCEPT !.op = op,
                    !.status = IF r.c.requests > 0 THEN answer.status ELSE "unsent",
                    !.answer = IF r.c.requests > 0 THEN answer.body ELSE "none",
                    !.input = IF r.c.requests > 0 THEN answer.duration ELSE <<>>,
                    !.kind = r.kind,
                    !.err = r.err,
                    !.body = IF r.kind # "Ok" THEN "none"
                             ELSE IF op = "get_video_metadata" THEN "track"
                             ELSE IF r.val.some THEN "track" ELSE "null",
                    !.ms = IF r.kind = "Ok" /\ op = "get_video_metadata" THEN r.val ELSE 0]

\* #[tauri::command] spotify_get_now_playing / youtube_get_now_playing
GetNowPlaying(answer, b) ==
    \E r \in {get_now_playing(Ctx(b), service, answer)} :
        /\ Commit(r)
        /\ reply' = Reply("get_now_playing", r, answer)
        /\ last' = [Idle EXCEPT !.op = "get_now_playing"]
        /\ UNCHANGED <<now, build, service, expect, tampered, retry, tasks>>

\* #[tauri::command] youtube_get_video_metadata
GetVideoMetadata(answer, b) ==
    /\ service = "youtube"
    /\ \E r \in {get_video_metadata(Ctx(b), answer)} :
           /\ Commit(r)
           /\ reply' = Reply("get_video_metadata", r, answer)
           /\ last' = [Idle EXCEPT !.op = "get_video_metadata"]
    /\ UNCHANGED <<now, build, service, expect, tampered, retry, tasks>>

ApiKeys == {<<"k">>, <<"K", "2">>}

\* #[tauri::command] youtube_store_api_key
StoreApiKey(api_key, b) ==
    /\ service = "youtube"
    /\ \E r \in {StorageErr(store(Ctx(b), API_KEY_KEY, api_key, NonceAt(0)))} :
           /\ Commit(r)
           /\ last' = Done("store", API_KEY_KEY, r)
    /\ UNCHANGED <<now, build, service, expect, tampered, retry, reply, tasks>>

NextClient ==
    \/ \E response \in Responses, b \in LedgerBudgets : Authenticate(response, b)
    \/ \E api_key \in ApiKeys, b \in LedgerBudgets : StoreApiKey(api_key, b)
    \/ \E answer \in Answers, b \in LedgerBudgets : GetNowPlaying(answer, b)
    \/ \E answer \in Answers, b \in LedgerBudgets : GetVideoMetadata(answer, b)

SpecClient == InitLedger /\ [][NextClient]_vars

\* the operations of a StreamingService handed to retry_with_backoff
StreamingOps == {"authenticate", "refresh_token", "get_now_playing"}

\* the operation op of the bridge, called once
streaming_call(c, s, op, response, answer) ==
    IF op = "authenticate" THEN authenticate(c, s, response)
    ELSE IF op = "refresh_token" THEN refresh_token(c, s, response)
    ELSE get_now_playing(c, s, answer)

\* the closure handed to retry_with_backoff: operation().await.map_err(MilkError::from)
StreamingOutcome(op, r) ==
    IF r.kind = "Err" THEN Outcome("Err", <<>>, from_api_error(r.err))
    ELSE IF r.kind = "Panic" THEN Outcome("Panic", <<>>, NoError)
    ELSE IF op = "get_now_playing"
         THEN Outcome("Ok", IF r.val.some THEN r.val.v ELSE <<>>, NoError)
    ELSE Outcome("Ok", r.val.access_token, NoError)

\* one pass of the loop body with an operation of the bridge
RetryStreaming(response, answer, b) ==
    /\ retry.pc = "call"
    /\ retry.op \in StreamingOps
    /\ \E r \in {streaming_call(Ctx(b), service, retry.op, response, answer)} :
           /\ Commit(r)
           /\ last' = [Done(retry.op, "none", r) EXCEPT !.creds = TRUE]
           /\ retry' = attempted(retry, StreamingOutcome(retry.op, r))
    /\ UNCHANGED <<now, build, service, expect, tampered, reply, tasks>>

\* retry_with_backoff (handle_network_timeout calls nothing else) around the
\* operations of a bridge and around a scripted operation
NextStreaming ==
    \/ \E op \in StreamingOps \cup {"scripted"} : RetryBegin(op)
    \/ \E out \in Outcomes : RetryScripted(out)
    \/ \E response \in Responses, answer \in Answers, b \in {MaxFault, NoFault} :
           RetryStreaming(response, answer, b)
    \/ RetryWake

SpecStreaming == InitLedger /\ [][NextStreaming]_vars

----------------------------------------------------------------------------
(* PlatformSecureStorage::store called from concurrent tasks.  A task's     *)
(* steps are its keyring calls: the platform serves one call at a time and  *)
(* nothing in the vault holds a lock across two of them.                    *)

\* the names the tasks store under
StoreNames == UserNames \ {ENCRYPTION_KEY_NAME}

\* a keyring with no master key and no entries
InitConcurrent ==
    /\ keyring = [n \in Names |-> NoEntry]
    /\ keygen = 0
    /\ now = StartTime
    /\ build = "release"
    /\ service = "none"
    /\ last = Idle
    /\ expect = [n \in UserNames |-> None]
    /\ tampered = 0
    /\ retry = RetryIdle
    /\ reply = NoReply
    /\ tasks = NoTasks

\* task t calls store(key, value)
StoreBegin(t, key, value) ==
    /\ tasks[t].pc = "idle"
    /\ tasks' = [tasks EXCEPT ![t] = [TaskIdle EXCEPT !.pc = "get_key", !.name = key,
                                                       !.value = value]]
    /\ UNCHANGED <<keyring, keygen, now, build, service, last, expect, tampered, retry, reply>>

\* get_or_create_encryption_key: entry.get_password() and the match on its result
StoreGetKey(t) ==
    /\ tasks[t].pc = "get_key"
    /\ \E g \in {get_password(Ctx(NoFault), ENCRYPTION_KEY_NAME)} :
        \E d \in {IF g.kind = "Ok" THEN B64Decode(g.val) ELSE B64Decode(Raw)} :
           tasks' = [tasks EXCEPT ![t] =
                        IF g.kind = "Ok" /\ d.ok /\ d.bytes.len = KEY_LEN
                        THEN [@ EXCEPT !.pc = "set_entry", !.key = d.bytes]
                        ELSE IF g.kind = "Ok" \/ g.err \in {"NoEntry", "Ambiguous"}
                        THEN [@ EXCEPT !.pc = "set_key"]
                        ELSE [@ EXCEPT !.pc = "done", !.kind = "Err"]]
    /\ UNCHANGED <<keyring, keygen, now, build, service, last, expect, tampered, retry, reply>>

\* get_or_create_encryption_key: OsRng.fill_bytes(&mut key) and entry.set_password(&key_b64)
StoreSetKey(t) ==
    /\ tasks[t].pc = "set_key"
    /\ \E k \in {generate_key(Ctx(NoFault))} :
           /\ Commit(k)
           /\ tasks' = [tasks EXCEPT ![t] =
                           IF k.kind = "Ok" THEN [@ EXCEPT !.pc = "set_entry", !.key = k.val]
                           ELSE [@ EXCEPT !.pc = "done", !.kind = "Err"]]
    /\ UNCHANGED <<now, build, service, last, expect, tampered, retry, reply>>

\* encrypt with the key the task holds, then store: entry.set_password(&encrypted)
StoreSetEntry(t, n) ==
    /\ tasks[t].pc = "set_entry"
    /\ \E w \in {set_password(Ctx(NoFault), tasks[t].name,
                               JsonEncode(B64Encode(NonceBytes(n)),
                                          B64Encode(Seal(tasks[t].key, NonceBytes(n),
                                                         tasks[t].value))))} :
           /\ Commit(w)
           /\ tasks' = [tasks EXCEPT ![t].pc = "done",
                                     ![t].kind = IF w.kind = "Ok" THEN "Ok" ELSE "Err"]
           /\ expect' = IF w.kind = "Ok" /\ tasks[t].name \in DOMAIN expect
                        THEN [expect EXCEPT ![tasks[t].name] = Some(tasks[t].value)]
                        ELSE expect
    /\ UNCHANGED <<now, build, service, last, tampered, retry, reply>>

\* the task takes the result of its store
StoreReturn(t) ==
    /\ tasks[t].pc = "done"
    /\ tasks' = [tasks EXCEPT ![t] = TaskIdle]
    /\ UNCHANGED <<keyring, keygen, now, build, service, last, expect, tampered, retry, reply>>

NextConcurrent ==
    \/ \E t \in Tasks, key \in StoreNames, value \in Secrets : StoreBegin(t, key, value)
    \/ \E t \in Tasks : StoreGetKey(t)
    \/ \E t \in Tasks : StoreSetKey(t)
    \/ \E t \in Tasks, n \in 1..NumNonces : StoreSetEntry(t, n)
    \/ \E t \in Tasks : StoreReturn(t)

SpecConcurrent == InitConcurrent /\ [][NextConcurrent]_vars

----------------------------------------------------------------------------
(* store_token called from concurrent tasks: the bridges are shared statics *)
(* and their async commands hold no lock.  A save is three calls of store,  *)
(* each of them the keyring calls above.                                    *)

\* the tokens the tasks save; no two agree in any field
SaveTokens == {Token(<<"A">>, SKEW + 1, Some(<<"R">>)), Token(<<"B">>, SKEW + 2, Some(<<"S">>))}

\* the store call a save makes at a stage: the entry's name and the text
SaveName(s, stage) ==
    IF stage = 1 THEN TOKEN_KEY(s)
    ELSE IF stage = 2 THEN REFRESH_TOKEN_KEY(s)
    ELSE TOKEN_EXPIRY_KEY(s)

SaveText(token, stage) ==
    IF stage = 1 THEN token.access_token
    ELSE IF stage = 2 THEN token.refresh_token.v
    ELSE to_string(now + token.expires_in)

\* a service whose master key exists, with no token saved
InitSaves ==
    /\ keyring = [n \in Names |-> IF n = ENCRYPTION_KEY_NAME THEN B64Encode(KeyBytes(1))
                                   ELSE NoEntry]
    /\ keygen = 1
    /\ now = StartTime
    /\ build = "release"
    /\ service \in Services
    /\ last = Idle
    /\ expect = [n \in UserNames |-> None]
    /\ tampered = 0
    /\ retry = RetryIdle
    /\ reply = NoReply
    /\ tasks = NoTasks

\* task t calls store_token(token): self.storage.store(TOKEN_KEY, &token.access_token)
SaveBegin(t, token) ==
    /\ tasks[t].pc = "idle"
    /\ tasks' = [tasks EXCEPT ![t] = [TaskIdle EXCEPT !.pc = "get_key", !.token = token,
                                                       !.stage = 1,
                                                       !.name = SaveName(service, 1),
                                                       !.value = SaveText(token, 1)]]
    /\ UNCHANGED <<keyring, keygen, now, build, service, last, expect, tampered, retry, reply>>

\* a store of the save returned Ok: the next store is called, the refresh
\* token's when the token carries one, then the expiry's
SaveNext(t) ==
    /\ tasks[t].pc = "done"
    /\ tasks[t].kind = "Ok"
    /\ tasks[t].stage \in {1, 2}
    /\ \E stage \in {IF tasks[t].stage = 1 /\ tasks[t].token.refresh_token.some THEN 2 ELSE 3} :
           tasks' = [tasks EXCEPT ![t].pc = "get_key", ![t].kind = "none", ![t].stage = stage,
                                  ![t].name = SaveName(service, stage),
                                  ![t].value = SaveText(tasks[t].token, stage)]
    /\ UNCHANGED <<keyring, keygen, now, build, service, last, expect, tampered, retry, reply>>

\* store_token returns: Ok(()) after the expiry's store, or the ? of a store
SaveReturn(t) ==
    /\ tasks[t].pc = "done"
    /\ tasks[t].stage = 3 \/ tasks[t].kind = "Err"
    /\ tasks' = [tasks EXCEPT ![t].pc = "returned"]
    /\ UNCHANGED <<keyring, keygen, now, build, service, last, expect, tampered, retry, reply>>

NextSaves ==
    \/ \E t \in Tasks, token \in SaveTokens : SaveBegin(t, token)
    \/ \E t \in Tasks : StoreGetKey(t)
    \/ \E t \in Tasks, n \in 1..NumNonces : StoreSetEntry(t, n)
    \/ \E t \in Tasks : SaveNext(t)
    \/ \E t \in Tasks : SaveReturn(t)

SpecSaves == InitSaves /\ [][NextSaves]_vars

----------------------------------------------------------------------------
(* Vocabulary of the vault's claims *)

VaultOps == {"store", "retrieve", "delete"}

IsText(entry) == entry \notin {NoEntry, Ambiguous}

\* the text is the base64 of 32 bytes
ValidKeyText(text) == B64Decode(text).ok /\ B64Decode(text).bytes.len = KEY_LEN

\* the entry is an envelope that opens under the stored master key
Decryptable(entry, key) ==
    /\ ValidKeyText(key)
    /\ IsEnvelope(entry)
    /\ B64Decode(entry.nonce).bytes.len = NONCE_LEN
    /\ Open(B64Decode(key).bytes, B64Decode(entry.nonce).bytes,
            B64Decode(entry.ciphertext).bytes).ok

\* an envelope one byte of whose nonce or ciphertext was replaced
ByteFlipped(entry) ==
    /\ IsEnvelope(entry)
    /\ B64Decode(entry.nonce).bytes.len = NONCE_LEN
    /\ \/ B64Decode(entry.ciphertext).bytes.flipped
       \/ B64Decode(entry.ciphertext).bytes.nonce # B64Decode(entry.nonce).bytes

\* an envelope whose nonce or ciphertext is no longer base64
Undecodable(entry) ==
    /\ entry.t = "json"
    /\ ~B64Decode(entry.nonce).ok \/ ~B64Decode(entry.ciphertext).ok

\* the last handler was retrieve, the platform answered all its calls
Retrieved == last.op = "retrieve" /\ ~last.faulted

\* this step is a retrieve, the platform answers all its calls
Retrieves == last'.op = "retrieve" /\ ~last'.faulted

\* retrieve gets as far as decrypting: the master key is obtained
KeyObtained == last'.err # "KeyringError"

\* the entry the handler of this step is called with, as it finds it
Entry == keyring[last'.name]

\* the master-key entry, as the handler of this step finds it
KeyEntry == keyring[ENCRYPTION_KEY_NAME]

\* C1: after store(N,S) returned ok, retrieve(N) returns Some(S), S the value of
\* the most recent successful store to N, as long as no delete(N) followed
\* (and nobody outside the program touched the entry or the master key).
C1_StoreThenRetrieve ==
    (Retrieved /\ expect[last.name].some)
        => (last.kind = "Ok" /\ last.val = Some(expect[last.name].v))

\* C2: retrieve(N) of an entry that exists but cannot be decrypted returns an
\* error: not None, not a plaintext (and nothing else either).
C2_UndecryptableIsError ==
    [][(Retrieves /\ IsText(Entry) /\ ~Decryptable(Entry, KeyEntry))
          => last'.kind = "Err"]_vars

C4_DeleteIdempotent ==
    [][(last'.op = "delete" /\ ~last'.faulted /\ ~IsText(Entry)) => last'.kind = "Ok"]_vars

\* C5: retrieve(N) returns None, not an error, when the platform reports no
\* entry or an ambiguous entry for N; after a successful delete(N) there is no
\* entry for N.
C5_RetrieveNone ==
    [][/\ (Retrieves /\ ~IsText(Entry)) => (last'.kind = "Ok" /\ last'.val = None)
       /\ (last'.op = "delete" /\ last'.kind = "Ok") => keyring'[last'.name] = NoEntry]_vars

\* C5 witness: a retrieve of an entry the platform reports as ambiguous
\* returned None
C5_Witness ==
    /\ Retrieved
    /\ keyring[last.name] = Ambiguous
    /\ last.kind = "Ok"
    /\ last.val = None

\* C6: once a valid 32-byte master key is stored, no later store, retrieve or
\* delete changes the stored master key.
C6_MasterKeyStable ==
    [][(last'.op \in VaultOps /\ ValidKeyText(KeyEntry))
          => keyring'[ENCRYPTION_KEY_NAME] = KeyEntry]_vars

----------------------------------------------------------------------------
(* Vocabulary of the ledger's claims *)

\* the plaintext stored under name n, if the entry opens under the stored key
Plain(kr, n) ==
    IF Decryptable(kr[n], kr[ENCRYPTION_KEY_NAME])
    THEN Some(B64Decode(kr[n].ciphertext).bytes.pt)
    ELSE None

\* the three entries of the ledger, as stored
Ledger(kr) == <<kr[TOKEN_KEY(service)], kr[REFRESH_TOKEN_KEY(service)], kr[TOKEN_EXPIRY_KEY(service)]>>

\* the stored expiry, if there is one and it is a decimal number
Expiry(kr) ==
    IF Plain(kr, TOKEN_EXPIRY_KEY(service)).some
    THEN parse_u64(Plain(kr, TOKEN_EXPIRY_KEY(service)).v)
    ELSE [ok |-> FALSE, n |-> 0]

NoExpiryRecord(kr) == ~IsText(kr[TOKEN_EXPIRY_KEY(service)])

\* expired as section 3 defines it: now >= expiry - 60, over the integers
IsExpired(kr) == NoExpiryRecord(kr) \/ (Expiry(kr).ok /\ now >= Expiry(kr).n - SKEW)

NotExpired(kr) == Expiry(kr).ok /\ now < Expiry(kr).n - SKEW

\* C7 as claimed: get_valid_token on a ledger that is not expired returns the
\* stored access token, with or without Credentials, sends no token request
\* and leaves the three entries as they were.
C7_FreshTokenReturned ==
    [][(last'.op = "get_valid_token" /\ ~last'.faulted /\ NotExpired(keyring))
          => /\ last'.kind = "Ok"
             /\ Plain(keyring, TOKEN_KEY(service)).some
             /\ last'.val = Plain(keyring, TOKEN_KEY(service))
             /\ last'.requests = 0
             /\ Ledger(keyring') = Ledger(keyring)]_vars

\* C7 amended: the same, for a ledger that is not expired and holds an access
\* token.
C7_FreshStoredTokenReturned ==
    [][(/\ last'.op = "get_valid_token"
        /\ ~last'.faulted
        /\ NotExpired(keyring)
        /\ Plain(keyring, TOKEN_KEY(service)).some)
          => /\ last'.kind = "Ok"
             /\ last'.val = Plain(keyring, TOKEN_KEY(service))
             /\ last'.requests = 0
             /\ Ledger(keyring') = Ledger(keyring)]_vars

\* C7 witness: get_valid_token without Credentials returned the stored access
\* token of a ledger that is not expired
C7_Witness ==
    /\ last.op = "get_valid_token"
    /\ ~last.creds
    /\ NotExpired(keyring)
    /\ Plain(keyring, TOKEN_KEY(service)).some
    /\ last.kind = "Ok"
    /\ last.val = Plain(keyring, TOKEN_KEY(service))
    /\ last.requests = 0

\* C8: get_valid_token without Credentials on an expired ledger (or one with no
\* expiry record) fails with TokenExpired, sends no token request and leaves
\* the three entries as they were.
C8_ExpiredNeedsCredentials ==
    [][(last'.op = "get_valid_token" /\ ~last'.creds /\ ~last'.faulted /\ IsExpired(keyring))
          => /\ last'.kind = "Err"
             /\ last'.err = "TokenExpired"
             /\ last'.requests = 0
             /\ Ledger(keyring') = Ledger(keyring)]_vars

\* C9: is_expired() is true when there is no expiry record, and otherwise is
\* exactly now >= expiry - 60.
C9_ExpiryBoundary ==
    [][(last'.op = "is_token_expired" /\ ~last'.faulted)
          => /\ NoExpiryRecord(keyring) => (last'.kind = "Ok" /\ last'.flag)
             /\ Expiry(keyring).ok
                    => (last'.kind = "Ok" /\ last'.flag = (now >= Expiry(keyring).n - SKEW))]_vars

\* C10: a save(token) that returns ok has stored token.access_token as the
\* access token and now + token.expires_in, in decimal, as the expiry; it has
\* stored token.refresh_token if the token carries one and has left the
\* refresh entry as it was if not.
C10_SaveOverwrites ==
    [][(last'.saved.some /\ last'.kind = "Ok")
          => /\ Plain(keyring', TOKEN_KEY(service)) = Some(last'.saved.v.access_token)
             /\ Plain(keyring', TOKEN_EXPIRY_KEY(service))
                    = Some(to_string(now + last'.saved.v.expires_in))
             /\ IF last'.saved.v.refresh_token.some
                THEN Plain(keyring', REFRESH_TOKEN_KEY(service)) = last'.saved.v.refresh_token
                ELSE keyring'[REFRESH_TOKEN_KEY(service)] = keyring[REFRESH_TOKEN_KEY(service)]]_vars

\* C11: a refresh_token that returns ok on a vendor response without
\* refresh_token leaves the stored refresh token as it was and returns a token
\* carrying it; on a response with a refresh_token, that one is stored.
C11_RefreshCarryover ==
    [][(last'.op = "refresh_token" /\ last'.kind = "Ok")
          => IF last'.answer.v.refresh_token.some
             THEN Plain(keyring', REFRESH_TOKEN_KEY(service)) = last'.answer.v.refresh_token
             ELSE /\ Plain(keyring, REFRESH_TOKEN_KEY(service)).some
                  /\ Plain(keyring', REFRESH_TOKEN_KEY(service))
                         = Plain(keyring, REFRESH_TOKEN_KEY(service))
                  /\ last'.saved.v.refresh_token
                         = Plain(keyring, REFRESH_TOKEN_KEY(service))]_vars

\* C11 witness: a refresh_token returned ok on a response without refresh_token
\* and the token it returned carries the stored refresh token
C11_Witness ==
    /\ last.op = "refresh_token"
    /\ last.kind = "Ok"
    /\ last.answer.some
    /\ ~last.answer.v.refresh_token.some
    /\ Plain(keyring, REFRESH_TOKEN_KEY(service)).some
    /\ last.saved.v.refresh_token = Plain(keyring, REFRESH_TOKEN_KEY(service))

\* Stale: the stored expiry, less the skew, has passed
Stale(kr) == Expiry(kr).ok /\ now >= Expiry(kr).n - SKEW

\* AuthRequired: Stale and no refresh token stored
AuthRequired(kr) == Stale(kr) /\ ~IsText(kr[REFRESH_TOKEN_KEY(service)])

\* Valid: an access token is stored and is not expired
Valid(kr) == NotExpired(kr) /\ Plain(kr, TOKEN_KEY(service)).some

\* C13: in AuthRequired every get_valid_token and every refresh_token fails and
\* leaves the service in AuthRequired, as does the passing of time; an
\* authenticate that returns ok makes the service Valid.
C13_AuthRequiredIsTerminal ==
    [][AuthRequired(keyring)
          => /\ last'.op \in {"get_valid_token", "refresh_token"}
                    => (last'.kind = "Err" /\ AuthRequired(keyring'))
             /\ last'.op = "tick" => AuthRequired(keyring)'
             /\ (last'.op = "authenticate" /\ last'.kind = "Ok") => Valid(keyring')]_vars

----------------------------------------------------------------------------
(* Vocabulary of the retry claims *)

\* the number of times the operation was invoked in the run
Calls(st) == Cardinality({i \in DOMAIN st.trace : st.trace[i].ev = "call"})

IsSleep(x) == x.ev = "sleep"

\* the delays slept in the run, in order
Delays(st) ==
    [i \in 1..Len(SelectSeq(st.trace, IsSleep)) |-> SelectSeq(st.trace, IsSleep)[i].ms]

\* the k-th invocation of the operation and what it returned
Attempt(st, k) == st.trace[2 * k - 1].out

\* the k-th invocation failed with an error the program classifies as recoverable
FailedRecoverably(st, k) ==
    /\ Len(st.trace) >= 2 * k - 1
    /\ Attempt(st, k).kind = "Err"
    /\ is_recoverable(Attempt(st, k).err)

\* this step is an invocation of refresh_token by retry_with_backoff
RefreshAttempt == retry.pc = "call" /\ retry.op = "refresh_token" /\ last'.op = "refresh_token"

\* C12: refresh_token with no refresh token stored fails with
\* AuthenticationError, sends no token request and leaves the three entries as
\* they were; retry_with_backoff around it invokes it once, sleeps never and
\* returns the authentication failure.
C12_NoRefreshTokenNoRetry ==
    [][(RefreshAttempt /\ ~last'.faulted /\ ~IsText(keyring[REFRESH_TOKEN_KEY(service)]))
          => /\ last'.kind = "Err"
             /\ last'.err = "AuthenticationError"
             /\ last'.requests = 0
             /\ Ledger(keyring') = Ledger(keyring)
             /\ retry'.pc = "done"
             /\ retry'.kind = "Err"
             /\ retry'.err.kind = "AuthenticationFailed"
             /\ Calls(retry') = 1
             /\ Delays(retry') = <<>>]_vars

\* C12 witness: retry_with_backoff ended after one refresh_token on a ledger that
\* holds an access token and no refresh token
C12_Witness ==
    /\ retry.op = "refresh_token"
    /\ retry.pc = "done"
    /\ retry.err.kind = "AuthenticationFailed"
    /\ Calls(retry) = 1
    /\ last.op = "refresh_token"
    /\ last.err = "AuthenticationError"
    /\ Plain(keyring, TOKEN_KEY(service)).some
    /\ keyring[REFRESH_TOKEN_KEY(service)] = NoEntry

\* the run has made its k-th invocation and has not gone past it
LastAttempt(st, k) == Len(st.trace) = 2 * k - 1

\* C14: when an invocation fails with a non-recoverable error no delay and no
\* invocation follows it and retry_with_backoff returns that error as it is;
\* when it is the first invocation, the operation was invoked once and nothing
\* was slept.
C14_NonRecoverableStops ==
    \A k \in 1..MAX_RETRIES :
        (/\ Len(retry.trace) >= 2 * k - 1
         /\ Attempt(retry, k).kind = "Err"
         /\ ~is_recoverable(Attempt(retry, k).err))
            => /\ LastAttempt(retry, k)
               /\ retry.pc = "done"
               /\ retry.kind = "Err"
               /\ retry.err = Attempt(retry, k).err
               /\ Calls(retry) = k
               /\ Len(Delays(retry)) = k - 1
               /\ k = 1 => (Calls(retry) = 1 /\ Delays(retry) = <<>>)

\* C14 witness: the first invocation failed with AudioDeviceUnavailable and
\* that error was returned
C14_Witness ==
    /\ retry.pc = "done"
    /\ retry.op = "scripted"
    /\ Calls(retry) = 1
    /\ Delays(retry) = <<>>
    /\ Attempt(retry, 1).err = MilkError("AudioDeviceUnavailable", <<>>)
    /\ retry.kind = "Err"
    /\ retry.err = MilkError("AudioDeviceUnavailable", <<>>)

\* C15: invocations and sleeps alternate, the sleep after the k-th failed
\* invocation lasts 1000 * 2^(k-1) ms and is over before the next invocation,
\* which follows it;
\* a recoverable failure of invocation 1 or 2 is followed by a sleep; a run
\* whose third invocation succeeds after two recoverable failures has slept
\* 1000 ms and 2000 ms and returns the third invocation's value.
C15_BackoffSchedule ==
    /\ \A i \in DOMAIN retry.trace :
           /\ IsSleep(retry.trace[i]) <=> i % 2 = 0
           /\ IsSleep(retry.trace[i]) => retry.trace[i].ms = 1000 * 2 ^ ((i \div 2) - 1)
    /\ retry.pc = "sleep" => (retry.trace # <<>> /\ IsSleep(retry.trace[Len(retry.trace)]))
    /\ (retry.trace # <<>> /\ IsSleep(retry.trace[Len(retry.trace)]))
           => retry.pc \in {"sleep", "call"}
    /\ \A k \in 1..(MAX_RETRIES - 1) :
           FailedRecoverably(retry, k) => (Len(retry.trace) >= 2 * k /\ Len(Delays(retry)) >= k)
    /\ (Len(retry.trace) = 5 /\ Attempt(retry, 3).kind = "Ok")
           => /\ retry.pc = "done"
              /\ retry.kind = "Ok"
              /\ retry.val = Attempt(retry, 3).val
              /\ Delays(retry) = <<1000, 2000>>

\* C15 witness: two recoverable failures, then success on the third invocation
C15_Witness ==
    /\ retry.pc = "done"
    /\ retry.kind = "Ok"
    /\ Calls(retry) = 3
    /\ FailedRecoverably(retry, 1)
    /\ FailedRecoverably(retry, 2)
    /\ Delays(retry) = <<1000, 2000>>
    /\ retry.val = Attempt(retry, 3).val

\* the operation is invoked at most 3 times; when all 3 invocations failed
\* recoverably the run has slept twice, not after the third failure, and
\* returns Internal with the text of the third error
AttemptsBounded ==
    /\ Calls(retry) <= 3
    /\ (\A k \in 1..3 : FailedRecoverably(retry, k))
           => /\ Len(retry.trace) = 5
              /\ Delays(retry) = <<1000, 2000>>
              /\ retry.pc = "done"
              /\ retry.kind = "Err"
              /\ retry.err = MilkError("Internal", Display(Attempt(retry, 3).err))

\* C16: provided every invocation returns (and every sleep ends), a run of
\* retry_with_backoff ends; it ends after at most 3 invocations, and after 3
\* recoverable failures it has slept exactly twice and returns the terminal
\* failure Internal with the text of the third error.
C16_AttemptsBounded ==
    /\ []AttemptsBounded
    /\ (retry.pc \in {"call", "sleep"}) ~> (retry.pc = "done")

\* C16 witness: three recoverable failures, the third one a rate limit after
\* two timeouts
C16_Witness ==
    /\ retry.pc = "done"
    /\ Calls(retry) = 3
    /\ Attempt(retry, 1).err.kind = "NetworkTimeout"
    /\ Attempt(retry, 2).err.kind = "NetworkTimeout"
    /\ Attempt(retry, 3).err.kind = "RateLimitExceeded"
    /\ retry.err = MilkError("Internal", <<"API rate limit exceeded">>)
    /\ Delays(retry) = <<1000, 2000>>

\* the error kinds section 4.6 classifies as recoverable
ClaimedRecoverable ==
    {"NetworkTimeout", "RateLimitExceeded", "CorruptedFile", "SkinParseError", "MetadataError"}

\* C17: an error is classified recoverable if it is a network timeout, a rate
\* limit, a corrupted file, a skin parse error or a metadata error, and not
\* recoverable if it is of any other kind.
C17_Classification ==
    \A k \in 1..MAX_RETRIES :
        (LastAttempt(retry, k) /\ Attempt(retry, k).kind = "Err")
            => retry.is_recoverable = (Attempt(retry, k).err.kind \in ClaimedRecoverable)

\* C17 witness: a disk-full error was classified as not recoverable
C17_Witness ==
    /\ LastAttempt(retry, 1)
    /\ Attempt(retry, 1).err.kind = "DiskFull"
    /\ ~retry.is_recoverable
    /\ retry.pc = "done"

----------------------------------------------------------------------------
(* Vocabulary of the duration claim *)

\* the characters of the text that stand where a unit is read: those that are
\* not digits, after the leading "PT"
UnitLetters(text) ==
    {trim_start_matches_PT(text)[i] : i \in {j \in DOMAIN trim_start_matches_PT(text) :
                                                ~IsDigit(trim_start_matches_PT(text)[j])}}

\* the text has a unit letter that is none of H, M, S
HasBadUnit(text) == UnitLetters(text) \ {"H", "M", "S"} # {}

\* C19: the text "PT" followed by the non-zero components of h hours,
\* m minutes and s seconds (h in 0..23, m and s in 0..59, not all zero) parses
\* to (h*3600 + m*60 + s)*1000 ms; a text with a unit letter other than H, M, S
\* yields a ParseError.
C19_DurationParsing ==
    reply.op = "parse_duration"
        => /\ reply.input = DurationText(reply.hms[1], reply.hms[2], reply.hms[3])
                => /\ reply.kind = "Ok"
                   /\ reply.ms = (reply.hms[1] * 3600 + reply.hms[2] * 60 + reply.hms[3]) * 1000
           /\ HasBadUnit(reply.input) => (reply.kind = "Err" /\ reply.err = "ParseError")

\* C19 witness: "PT1H2M3S" parsed to 3,723,000 ms
C19_Witness ==
    /\ reply.op = "parse_duration"
    /\ reply.input = <<"P", "T", "1", "H", "2", "M", "3", "S">>
    /\ reply.kind = "Ok"
    /\ reply.ms = 3723000

----------------------------------------------------------------------------
(* Vocabulary of the query claim *)

\* the vendor told the bridge that nothing is playing, or that the lookup
\* found nothing
NoActivePlayback ==
    \/ reply.op = "get_now_playing" /\ reply.status = "204"
    \/ reply.op = "get_video_metadata" /\ reply.status = "200" /\ reply.answer = "empty_items"

\* C18: an HTTP 204 to the now-playing query and an empty result set of a
\* video-metadata lookup are both delivered to the front end as a non-error
\* result, never as an error.
C18_NoActivePlaybackIsNormal == NoActivePlayback => reply.kind = "Ok"

----------------------------------------------------------------------------
(* Vocabulary of the concurrency claim *)

\* the store that wrote the entry last returned ok, and a retrieve that runs
\* now returns what it stored
Retrievable(n) ==
    expect[n].some
        => /\ retrieve(Ctx(NoFault), n).kind = "Ok"
           /\ retrieve(Ctx(NoFault), n).val = Some(expect[n].v)

\* C20: under any interleaving of store calls of concurrent tasks, from a
\* keyring with no master key, at most one master-key value is ever written,
\* and every secret whose store returned ok and that was not overwritten is
\* retrievable as Some(S) once no store is under way.  keygen counts the master
\* keys written: each key OsRng was asked for is written.
C20_OneMasterKey ==
    /\ keygen <= 1
    /\ (\A t \in Tasks : tasks[t].pc \in {"idle", "done"})
           => \A n \in StoreNames : Retrievable(n)

----------------------------------------------------------------------------
(* The ledger after a token was issued, and the expiry arithmetic *)

\* the is_expired() that follows at once, the platform answering every call
FollowingCheck == is_token_expired(Ctx(NoFault), service)

\* the get_valid_token(None) that follows at once
FollowingToken == get_valid_token(Ctx(NoFault), service, FALSE, CHOOSE r \in Responses : TRUE)

\* C26: after refresh_token or authenticate returned a token, the service is
\* Valid: an is_expired() that follows at once returns false and a
\* get_valid_token(None) returns that token's access_token and sends no token
\* request, whatever expires_in the vendor returned.
C26_ValidAfterIssue ==
    (last.op \in {"authenticate", "refresh_token"} /\ last.kind = "Ok")
        => /\ FollowingCheck.kind = "Ok"
           /\ FollowingCheck.val = FALSE
           /\ FollowingToken.kind = "Ok"
           /\ FollowingToken.val = last.saved.v.access_token
           /\ FollowingToken.c.requests = 0

\* C27: for every stored expiry that is a decimal number, values below 60
\* included, is_expired() returns now >= expiry - 60 computed over the
\* integers: the subtraction neither wraps around nor aborts.
C27_SkewOverIntegers ==
    [][(last'.op = "is_token_expired" /\ ~last'.faulted /\ Expiry(keyring).ok)
          => /\ last'.kind = "Ok"
             /\ last'.flag = (now + SKEW >= Expiry(keyring).n)]_vars

----------------------------------------------------------------------------
(* The vault: the master key's entry, the cipher's effects, failed writes   *)

\* C22: no store(name, value) and no delete(name) the public commands accept
\* changes the master key: a valid master key that existed before the call
\* exists after it, and the secrets stored under other names remain
\* retrievable.
C22_MasterKeyUntouched ==
    [][(last'.op \in {"store", "delete"} /\ ValidKeyText(KeyEntry))
          => /\ keyring'[ENCRYPTION_KEY_NAME] = KeyEntry
             /\ \A n \in UserNames \ {last'.name} :
                    Plain(keyring, n).some => Plain(keyring', n) = Plain(keyring, n)]_vars

\* C23: encrypt and decrypt have no side effects: a retrieve (which decrypts)
\* leaves every entry of the keyring as it was, the master-key entry included,
\* and a store (which encrypts) changes no entry but the one it is called with.
C23_CipherHasNoEffects ==
    [][/\ last'.op = "retrieve" => keyring' = keyring
       /\ last'.op = "store"
             => \A n \in Names \ {last'.name} : keyring'[n] = keyring[n]]_vars

\* this step's handler asks for the master key: store always, retrieve when
\* there is a text to decrypt
AsksForKey == last'.op = "store" \/ (last'.op = "retrieve" /\ IsText(Entry))

\* an envelope as encrypt wrote it, sealed under another key than the text key
SealedUnderEarlierKey(entry, key) ==
    /\ IsEnvelope(entry)
    /\ B64Decode(entry.nonce).bytes.len = NONCE_LEN
    /\ ~ByteFlipped(entry)
    /\ ValidKeyText(key)
    /\ B64Decode(entry.ciphertext).bytes.key # B64Decode(key).bytes

\* C24: when the master-key entry is present and does not decode to 32 bytes,
\* get_or_create_encryption_key generates a new key, overwrites the entry with
\* it and returns it without an error; a retrieve of a secret encrypted under
\* an earlier key fails with an error, and the secret of a store that ran
\* with the new key is retrievable.
C24_CorruptKeyRegenerated ==
    [][/\ (AsksForKey /\ ~last'.faulted /\ IsText(KeyEntry) /\ ~ValidKeyText(KeyEntry))
           => /\ IF last'.op = "store" THEN last'.sealed ELSE last'.err # "KeyringError"
              /\ keygen' = keygen + 1
              /\ (last'.op = "store" /\ last'.name = ENCRYPTION_KEY_NAME)
                     \/ keyring'[ENCRYPTION_KEY_NAME] = B64Encode(KeyBytes(keygen'))
              /\ (last'.op = "store" /\ last'.kind = "Ok")
                     => Plain(keyring', last'.name) = expect'[last'.name]
       /\ (Retrieves /\ SealedUnderEarlierKey(Entry, keyring'[ENCRYPTION_KEY_NAME]))
           => last'.kind = "Err"]_vars

\* what a retrieve(n) returns on the keyring kr when the platform answers
RetrieveResult(kr, n) ==
    <<retrieve([Ctx(NoFault) EXCEPT !.kr = kr], n).kind,
      retrieve([Ctx(NoFault) EXCEPT !.kr = kr], n).val,
      retrieve([Ctx(NoFault) EXCEPT !.kr = kr], n).err>>

\* C28: when store(N, S) returns an error because the write failed after the
\* encryption, retrieve(N) yields what it yielded before the store.
C28_FailedWriteKeepsValue ==
    [][(last'.op = "store" /\ last'.kind = "Err" /\ last'.sealed)
          => RetrieveResult(keyring', last'.name) = RetrieveResult(keyring, last'.name)]_vars

\* C30: retrieve returns Some(plaintext), None or an error for every text the
\* keyring can hold under a name (a nonce of another length than 12 bytes
\* included); it never panics.
C30_RetrieveIsTotal == last.op = "retrieve" => last.kind \in {"Ok", "Err"}

----------------------------------------------------------------------------
(* The ledger when issuing a token fails *)

\* this step is an authenticate or a refresh_token
Issues == last'.op \in {"authenticate", "refresh_token"}

\* C25: when refresh_token or authenticate returns an error, the three entries
\* of the ledger are as they were before the call; and whenever the call has
\* stored the access token of the token it was handing to store_token, it has
\* stored that token's expiry too.
C25_FailedIssueKeepsLedger ==
    [][/\ (Issues /\ last'.kind = "Err") => Ledger(keyring') = Ledger(keyring)
       /\ (Issues /\ last'.saved.some
              /\ keyring'[TOKEN_KEY(service)] # keyring[TOKEN_KEY(service)])
           => Plain(keyring', TOKEN_EXPIRY_KEY(service))
                  = Some(to_string(now + last'.saved.v.expires_in))]_vars

----------------------------------------------------------------------------
(* Retrying the operations of a streaming service *)

\* enum ApiError
ApiErrors ==
    {"NetworkError", "AuthenticationError", "ParseError", "StorageError", "TokenExpired",
     "NoActivePlayback"}

----------------------------------------------------------------------------
(* Concurrent saves of a service's token *)

\* the ledger holds the access token, the expiry and the refresh token of token
SavedWhole(token) ==
    /\ Plain(keyring, TOKEN_KEY(service)) = Some(token.access_token)
    /\ Plain(keyring, TOKEN_EXPIRY_KEY(service)) = Some(to_string(now + token.expires_in))
    /\ Plain(keyring, REFRESH_TOKEN_KEY(service)) = token.refresh_token

\* C21: once the concurrent saves for a service have all completed, the
\* ledger's access token, expiry and refresh token are those of one single
\* save, never a mixture of two.
C21_LastWriterWins ==
    (/\ \A t \in Tasks : tasks[t].pc \in {"idle", "returned"}
     /\ \E t \in Tasks : tasks[t].pc = "returned"
     /\ \A t \in Tasks : tasks[t].pc = "returned" => tasks[t].kind = "Ok")
        => \E t \in Tasks : tasks[t].pc = "returned" /\ SavedWhole(tasks[t].token)

====
